---- MODULE Spec2Model ----
(***************************************************************************)
(* Building37Analyzer: the analysis scripts of "Data Analysis/"            *)
(*   ge_building_analysis.py      (version "main")                         *)
(*   v2_ge_building_analysis.py   (version "v2")                           *)
(*   v1_ge_building_analysis.py   (version "v1")                           *)
(*                                                                         *)
(* Numbers.  Python/numpy floats are modelled as exact values: a value is  *)
(* a reduced fraction, NaN, or a signed infinity (numpy division by zero   *)
(* does not raise).  Rounding of float64 is not modelled.  Pearson's r is  *)
(* kept as the sign of the covariance with cov^2 and var(x)*var(y) in      *)
(* arbitrary precision, so that comparisons of r with a threshold are      *)
(* exact.                                                                  *)
(*                                                                         *)
(* Specifications.  Spec: one run of a script, statement by statement.     *)
(* SpecOrder: a client that loads an analyzer and calls its methods in any *)
(* order.  SpecFn: the computations applied on their own.                  *)
(***************************************************************************)
EXTENDS Integers, Sequences, FiniteSets, TLC

(***************************************************************************)
(* State.                                                                  *)
(***************************************************************************)
VARIABLES
    version,          \* which script runs
    files,            \* the three CSV files on disk
    badge_data,       \* self.badge_data
    energy_data,      \* self.energy_data
    conference_data,  \* self.conference_data
    building_info,    \* self.building_info
    local_df,         \* df_2025, the local frame of the method that ran last
    results,          \* the dicts the methods returned last
    report,           \* the lines printed so far, each with where it went
    stdout,           \* sys.stdout: "console" or "file"
    pc,               \* the last statement of the main script that completed
                      \* ("failed" after an exception, "client" under SpecOrder)
    fn, args, ret     \* a function applied on its own: name, arguments, result

vars == <<version, files, badge_data, energy_data, conference_data, building_info,
          local_df, results, report, stdout, pc, fn, args, ret>>

analyzer == <<badge_data, energy_data, conference_data, building_info>>
call == <<fn, args, ret>>

(***************************************************************************)
(* Arbitrary-precision naturals: little-endian digit sequences, base 10^4, *)
(* no leading zero digit (zero is the empty sequence).                     *)
(***************************************************************************)
BigBase == 100 * 100

RECURSIVE BigOf(_)
BigOf(n) == IF n = 0 THEN <<>> ELSE <<n % BigBase>> \o BigOf(n \div BigBase)

RECURSIVE BigTrim(_)
BigTrim(a) ==
    IF a = <<>> THEN <<>>
    ELSE IF a[Len(a)] = 0 THEN BigTrim(SubSeq(a, 1, Len(a) - 1)) ELSE a

RECURSIVE BigAddC(_, _, _)
BigAddC(a, b, c) ==
    IF a = <<>> /\ b = <<>> THEN (IF c = 0 THEN <<>> ELSE <<c>>)
    ELSE LET x == IF a = <<>> THEN 0 ELSE Head(a)
             y == IF b = <<>> THEN 0 ELSE Head(b)
             s == x + y + c
         IN  <<s % BigBase>> \o
             BigAddC(IF a = <<>> THEN <<>> ELSE Tail(a),
                     IF b = <<>> THEN <<>> ELSE Tail(b), s \div BigBase)

BigAdd(a, b) == BigAddC(a, b, 0)

\* a - b for a >= b
RECURSIVE BigSubC(_, _, _)
BigSubC(a, b, c) ==
    IF a = <<>> THEN <<>>
    ELSE LET y == IF b = <<>> THEN 0 ELSE Head(b)
             d == Head(a) - y - c
         IN  <<IF d < 0 THEN d + BigBase ELSE d>> \o
             BigSubC(Tail(a), IF b = <<>> THEN <<>> ELSE Tail(b),
                     IF d < 0 THEN 1 ELSE 0)

BigSub(a, b) == BigTrim(BigSubC(a, b, 0))

\* a * k for a digit k (0 <= k < BigBase)
RECURSIVE BigMulDigit(_, _, _)
BigMulDigit(a, k, c) ==
    IF a = <<>> THEN (IF c = 0 THEN <<>> ELSE <<c>>)
    ELSE LET p == Head(a) * k + c
         IN  <<p % BigBase>> \o BigMulDigit(Tail(a), k, p \div BigBase)

RECURSIVE BigMul(_, _)
BigMul(a, b) ==
    IF a = <<>> \/ b = <<>> THEN <<>>
    ELSE BigAdd(BigTrim(BigMulDigit(a, Head(b), 0)),
                IF BigMul(a, Tail(b)) = <<>> THEN <<>>
                ELSE <<0>> \o BigMul(a, Tail(b)))

\* -1, 0, 1 as a < b, a = b, a > b
RECURSIVE BigCmp(_, _)
BigCmp(a, b) ==
    IF Len(a) # Len(b) THEN (IF Len(a) < Len(b) THEN -1 ELSE 1)
    ELSE IF a = <<>> THEN 0
    ELSE IF a[Len(a)] # b[Len(b)] THEN (IF a[Len(a)] < b[Len(b)] THEN -1 ELSE 1)
    ELSE BigCmp(SubSeq(a, 1, Len(a) - 1), SubSeq(b, 1, Len(b) - 1))

\* signed difference a - b as [sg, mag]
BigDiff(a, b) ==
    LET c == BigCmp(a, b)
    IN  IF c = 0 THEN [sg |-> 0, mag |-> <<>>]
        ELSE IF c > 0 THEN [sg |-> 1, mag |-> BigSub(a, b)]
        ELSE [sg |-> -1, mag |-> BigSub(b, a)]

(***************************************************************************)
(* Exact values standing for floats.                                       *)
(***************************************************************************)
RECURSIVE Gcd(_, _)
Gcd(a, b) == IF b = 0 THEN a ELSE Gcd(b, a % b)

Abs(n) == IF n < 0 THEN -n ELSE n

NaN == [k |-> "nan"]
Inf(s) == [k |-> "inf", sg |-> s]

\* n / d as a value; d = 0 follows numpy: 0/0 is nan, x/0 is +-inf
Frac(n, d) ==
    IF d = 0 THEN (IF n = 0 THEN NaN ELSE Inf(IF n > 0 THEN 1 ELSE -1))
    ELSE LET g == Gcd(Abs(n), Abs(d))
             s == IF d < 0 THEN -1 ELSE 1
         IN  [k |-> "num", n |-> s * (n \div g), d |-> s * (d \div g)]

Num(n) == Frac(n, 1)

IsNum(v) == v.k = "num"

\* v / w
Div(v, w) ==
    IF v.k = "nan" \/ w.k = "nan" THEN NaN
    ELSE IF v.k = "inf" THEN (IF w.k = "inf" THEN NaN
                               ELSE Inf(IF w.n < 0 THEN -v.sg ELSE v.sg))
    ELSE IF w.k = "inf" THEN Num(0)
    ELSE LET g1 == Gcd(Abs(v.n), Abs(w.n))
             g2 == Gcd(v.d, w.d)
         IN  IF w.n = 0 THEN Frac(v.n, 0)
             ELSE Frac((v.n \div g1) * (w.d \div g2), (v.d \div g2) * (w.n \div g1))

\* v * w
Mul(v, w) ==
    IF v.k = "nan" \/ w.k = "nan" THEN NaN
    ELSE IF v.k = "inf" \/ w.k = "inf" THEN
        LET sv == IF v.k = "inf" THEN v.sg ELSE (IF v.n > 0 THEN 1 ELSE IF v.n < 0 THEN -1 ELSE 0)
            sw == IF w.k = "inf" THEN w.sg ELSE (IF w.n > 0 THEN 1 ELSE IF w.n < 0 THEN -1 ELSE 0)
        IN  IF sv * sw = 0 THEN NaN ELSE Inf(sv * sw)
    ELSE LET g1 == Gcd(Abs(v.n), w.d)
             g2 == Gcd(Abs(w.n), v.d)
         IN  Frac((v.n \div g1) * (w.n \div g2), (v.d \div g2) * (w.d \div g1))

\* v < w; any comparison with nan is False
Less(v, w) ==
    IF v.k = "nan" \/ w.k = "nan" THEN FALSE
    ELSE IF v.k = "inf" THEN (v.sg < 0 /\ ~(w.k = "inf" /\ w.sg < 0))
    ELSE IF w.k = "inf" THEN w.sg > 0
    ELSE v.n * w.d < w.n * v.d

RECURSIVE SeqSum(_)
SeqSum(s) == IF s = <<>> THEN 0 ELSE Head(s) + SeqSum(Tail(s))

\* np.mean of an integer array
Mean(s) == Frac(SeqSum(s), Len(s))

\* v + w
Add(v, w) ==
    IF v.k = "nan" \/ w.k = "nan" THEN NaN
    ELSE IF v.k = "inf" THEN (IF w.k = "inf" /\ w.sg # v.sg THEN NaN ELSE v)
    ELSE IF w.k = "inf" THEN w
    ELSE LET g == Gcd(v.d, w.d)
         IN  Frac(v.n * (w.d \div g) + w.n * (v.d \div g), (v.d \div g) * w.d)

\* Series.mean() / np.mean of a sequence of values
RECURSIVE ValSum(_)
ValSum(s) == IF s = <<>> THEN Num(0) ELSE Add(Head(s), ValSum(Tail(s)))

ValMean(s) == IF s = <<>> THEN NaN ELSE Div(ValSum(s), Num(Len(s)))

\* Series.sum(): pandas skips NaN
RECURSIVE ValSumSkipNa(_)
ValSumSkipNa(s) ==
    IF s = <<>> THEN Num(0)
    ELSE IF Head(s).k = "nan" THEN ValSumSkipNa(Tail(s))
    ELSE Add(Head(s), ValSumSkipNa(Tail(s)))

(***************************************************************************)
(* Pearson's r (scipy.stats.pearsonr(x, y)[0]) of two integer sequences of *)
(* the same length n >= 2.  With Sx = sum x, Sxx = sum x^2, Sxy = sum x*y: *)
(*   n*cov = n*Sxy - Sx*Sy,  n*var(x) = n*Sxx - Sx^2,                       *)
(*   r = n*cov / sqrt(n*var(x) * n*var(y)),                                 *)
(* and r is nan when x or y is constant.                                   *)
(***************************************************************************)
RECURSIVE BigDot(_, _)
BigDot(x, y) ==
    IF x = <<>> THEN <<>>
    ELSE BigAdd(BigMul(BigOf(Head(x)), BigOf(Head(y))), BigDot(Tail(x), Tail(y)))

\* n * sum(x*y) - sum(x) * sum(y), signed
CovN(x, y) ==
    BigDiff(BigMul(BigOf(Len(x)), BigDot(x, y)),
            BigMul(BigOf(SeqSum(x)), BigOf(SeqSum(y))))

\* n * sum(x^2) - sum(x)^2 (never negative)
VarN(x) == CovN(x, x).mag

pearsonrUncentered(x, y) ==
    IF VarN(x) = <<>> \/ VarN(y) = <<>> THEN NaN
    ELSE [k |-> "r", sg |-> 1,
          c2 |-> BigMul(BigMul(BigOf(Len(x)), BigDot(x, y)),
                        BigMul(BigOf(Len(x)), BigDot(x, y))),
          vv |-> BigMul(VarN(x), VarN(y))]

pearsonrMissingVariance(x, y) ==
    LET c == CovN(x, y)
    IN  IF VarN(x) = <<>> \/ VarN(y) = <<>> THEN NaN
        ELSE [k |-> "r", sg |-> c.sg, c2 |-> BigMul(c.mag, c.mag),
              vv |-> BigMul(VarN(x), VarN(x))]

pearsonrZeroForConstant(x, y) ==
    LET c == CovN(x, y)
    IN  [k |-> "r", sg |-> c.sg, c2 |-> BigMul(c.mag, c.mag),
         vv |-> IF VarN(x) = <<>> \/ VarN(y) = <<>> THEN BigOf(1)
                ELSE BigMul(VarN(x), VarN(y))]

pearsonr(x, y) ==
    LET c == CovN(x, y)
    IN  IF VarN(x) = <<>> \/ VarN(y) = <<>> THEN NaN
        ELSE [k |-> "r", sg |-> c.sg, c2 |-> BigMul(c.mag, c.mag),
              vv |-> BigMul(VarN(x), VarN(y))]

\* r > p/q and r < -p/q for a threshold p/q >= 0; False for nan
RGreater(r, p, q) ==
    /\ r.k = "r"
    /\ r.sg = 1
    /\ BigCmp(BigMul(BigOf(q * q), r.c2), BigMul(BigOf(p * p), r.vv)) > 0

RLessNeg(r, p, q) ==
    /\ r.k = "r"
    /\ r.sg = -1
    /\ BigCmp(BigMul(BigOf(q * q), r.c2), BigMul(BigOf(p * p), r.vv)) > 0

\* abs(r) > p/q and abs(r) < p/q; False for nan
RAbsGreater(r, p, q) ==
    /\ r.k = "r"
    /\ BigCmp(BigMul(BigOf(q * q), r.c2), BigMul(BigOf(p * p), r.vv)) > 0

RAbsLess(r, p, q) ==
    /\ r.k = "r"
    /\ BigCmp(BigMul(BigOf(q * q), r.c2), BigMul(BigOf(p * p), r.vv)) < 0

\* -1 <= r <= 1 and r = 1, for a defined r
RInUnit(r) == BigCmp(r.c2, r.vv) <= 0

RIsOne(r) == r.sg = 1 /\ r.c2 = r.vv

(***************************************************************************)
(* Building37Analyzer.__init__: the building constants.                    *)
(***************************************************************************)
NumMonths == 9
floor_1_2_sqft == 44352
floor_3_6_sqft == 22728
employees == 356
working_days_per_month == 20

Versions == {"v1", "v2", "main"}

BuildingInfo ==
    [floors |-> 6,
     floor_1_2_sqft |-> floor_1_2_sqft,
     floor_3_6_sqft |-> floor_3_6_sqft,
     total_sqft |-> 2 * floor_1_2_sqft + 4 * floor_3_6_sqft,
     employees |-> employees,
     working_days_per_month |-> working_days_per_month]

None == [k |-> "None"]
DataFrame(rows) == [k |-> "df", rows |-> rows]

(***************************************************************************)
(* analyze_occupancy_patterns.  A badge row is [Floor, swipes] with swipes *)
(* the 9 monthly counts Jan..Sep.                                          *)
(***************************************************************************)
RECURSIVE ColSum(_, _)
ColSum(rows, m) ==
    IF rows = <<>> THEN 0 ELSE Head(rows).swipes[m] + ColSum(Tail(rows), m)

\* self.badge_data[months].sum()
monthly_swipes(bd) == [m \in 1..NumMonths |-> ColSum(bd, m)]

\* self.badge_data[months].sum(axis=1), for one row
total_swipes(row) == SeqSum(row.swipes)

RECURSIVE FloorSum(_, _)
FloorSum(rows, f) ==
    IF rows = <<>> THEN 0
    ELSE (IF Head(rows).Floor = f THEN total_swipes(Head(rows)) ELSE 0)
         + FloorSum(Tail(rows), f)

FloorsOf(bd) == {bd[i].Floor : i \in DOMAIN bd}

\* self.badge_data.groupby('Floor')[months].sum().sum(axis=1)
floor_occupancy(bd) == [f \in FloorsOf(bd) |-> FloorSum(bd, f)]

RECURSIVE FnSum(_, _)
FnSum(f, S) ==
    IF S = {} THEN 0
    ELSE LET x == CHOOSE y \in S : TRUE IN f[x] + FnSum(f, S \ {x})

\* floor_occupancy.sum()
floor_occupancy_sum(bd) == FnSum(floor_occupancy(bd), FloorsOf(bd))

FnMax(f, S) == CHOOSE v \in {f[x] : x \in S} : \A x \in S : f[x] <= v

floor_pct_of_max(bd, f) ==
    Mul(Frac(floor_occupancy(bd)[f], FnMax(floor_occupancy(bd), FloorsOf(bd))), Num(100))

\* pct = swipes / floor_occupancy.sum() * 100
floor_pct(bd, f) ==
    Mul(Frac(floor_occupancy(bd)[f], floor_occupancy_sum(bd)), Num(100))

\* len(self.badge_data[self.badge_data['Floor'] == floor])
emp_count(bd, f) == Cardinality({i \in DOMAIN bd : bd[i].Floor = f})

avg_days_per_working_day(swipes, num_employees) == Frac(swipes, num_employees * 20)

\* avg_days = swipes / num_employees
avg_days(swipes, num_employees) == Frac(swipes, num_employees)

attendance_rate_floor_div(swipes, num_employees, working_days) ==
    IF num_employees = 0 \/ working_days = 0 THEN NaN
    ELSE Num(((swipes \div num_employees) \div working_days) * 100)

\* rate = (avg_days / working_days) * 100
attendance_rate(swipes, num_employees, working_days) ==
    Mul(Div(avg_days(swipes, num_employees), Num(working_days)), Num(100))

\* v1: avg_days_in_office = (monthly_swipes / len(badge_data)) / 20
avg_days_in_office_v1(swipes, num_employees) ==
    Div(Frac(swipes, num_employees), Num(20))

low_util_open_at_30(t) == t > 30 /\ t < 90

very_low_util(t) == t < 30
low_util(t) == t >= 30 /\ t < 90
medium_util(t) == t >= 90 /\ t < 140
high_util(t) == t >= 140

\* v1: low_util = total_swipes < 50
low_util_v1(t) == t < 50

\* mask.sum() over the employees
CountRows(bd, P(_)) == Cardinality({i \in DOMAIN bd : P(total_swipes(bd[i]))})

\* the lines of the occupancy section (main and v2)
OccupancyPrinted(bd, info) ==
    LET ms == monthly_swipes(bd)
        n  == Len(bd)
        wd == info.working_days_per_month
    IN  [section |-> "occupancy",
         monthly |-> [m \in 1..NumMonths |->
                        [swipes |-> ms[m],
                         avg_days |-> avg_days(ms[m], n),
                         rate |-> attendance_rate(ms[m], n, wd)]],
         floors |-> [f \in FloorsOf(bd) |->
                        [swipes |-> floor_occupancy(bd)[f],
                         pct |-> floor_pct(bd, f),
                         employees |-> emp_count(bd, f)]],
         very_low |-> CountRows(bd, very_low_util),
         low |-> CountRows(bd, low_util),
         medium |-> CountRows(bd, medium_util),
         high |-> CountRows(bd, high_util)]

\* the dict analyze_occupancy_patterns returns (main and v2)
OccupancyResult(bd, info) ==
    LET ms == monthly_swipes(bd)
        n  == Len(bd)
        wd == info.working_days_per_month
        overall_avg == ValMean([m \in 1..NumMonths |-> avg_days(ms[m], n)])
    IN  [monthly_swipes |-> ms,
         avg_days_in_office |-> overall_avg,
         attendance_rate |-> Mul(Div(overall_avg, Num(wd)), Num(100)),
         floor_distribution |-> floor_occupancy(bd),
         low_utilizers |-> CountRows(bd, very_low_util) + CountRows(bd, low_util)]

OccupancyPrintedV1(bd) ==
    LET ms == monthly_swipes(bd)
    IN  [section |-> "occupancy",
         monthly |-> [m \in 1..NumMonths |->
                        [days |-> avg_days_in_office_v1(ms[m], Len(bd)),
                         pct |-> Div(avg_days_in_office_v1(ms[m], Len(bd)), Num(4))]],
         floors |-> [f \in FloorsOf(bd) |->
                        [swipes |-> floor_occupancy(bd)[f],
                         pct |-> floor_pct(bd, f)]],
         low |-> CountRows(bd, low_util_v1)]

OccupancyResultV1(bd) ==
    LET ms == monthly_swipes(bd)
    IN  [monthly_swipes |-> ms,
         avg_days_in_office |->
             ValMean([m \in 1..NumMonths |-> avg_days_in_office_v1(ms[m], Len(bd))]),
         floor_distribution |-> floor_occupancy(bd),
         remote_workers |-> CountRows(bd, low_util_v1)]

(***************************************************************************)
(* analyze_energy_consumption.                                             *)
(***************************************************************************)
total_electricity == 5666000
total_gas == 273000
total_water == 129777000

electricity_from_file ==
    IF energy_data = None \/ energy_data.rows = <<>>
    THEN <<463000, 413000, 485000, 474000, 461000, 477000, 516000, 491000, 470000>>
    ELSE [m \in 1..NumMonths |->
            energy_data.rows[((m - 1) % Len(energy_data.rows)) + 1].Electricity]

electricity ==
    <<463000, 413000, 485000, 474000, 461000, 477000, 516000, 491000, 470000>>
gas == <<48000, 41000, 35000, 23000, 14000, 12000, 8000, 11000, 12000>>
water ==
    <<5978000, 5901000, 6083000, 9405000, 9434000, 9405000, 17143000, 17287000,
      16696000>>

\* the Python slice s[i:j] (0-based, j excluded)
PySlice(s, i, j) == SubSeq(s, i + 1, j)

SeqMax(s) == CHOOSE v \in {s[i] : i \in DOMAIN s} : \A i \in DOMAIN s : s[i] <= v
SeqMin(s) == CHOOSE v \in {s[i] : i \in DOMAIN s} : \A i \in DOMAIN s : s[i] >= v

water_multiplier_shifted_window(w) ==
    Div(Mean(PySlice(w, 6, 9)), Mean(PySlice(w, 3, 6)))

\* spring_water_avg = np.mean(water[2:5]); summer_water_avg = np.mean(water[6:9])
\* water_multiplier = summer_water_avg / spring_water_avg
water_multiplier(w) == Div(Mean(PySlice(w, 6, 9)), Mean(PySlice(w, 2, 5)))

\* total * 0.92 / 2000 and total * 11.7 / 2000
co2_electricity == Div(Mul(Num(total_electricity), Frac(92, 100)), Num(2000))
co2_gas == Div(Mul(Num(total_gas), Frac(117, 10)), Num(2000))

\* (total_water / 1000) * kwh_per_1000_gal * 0.92 / 2000
water_co2(kwh10) ==
    Div(Mul(Mul(Div(Num(total_water), Num(1000)), Frac(kwh10, 10)), Frac(92, 100)),
        Num(2000))

co2_water_supply_only == water_co2(130)

water_embedded_kwh == Mul(Div(Num(total_water), Num(1000)), Frac(275, 10))
co2_water == Div(Mul(water_embedded_kwh, Frac(92, 100)), Num(2000))

EnergyPrinted(v, info) ==
    [section |-> "energy",
     sqft_shown |-> IF v = "v1" THEN 181616 ELSE info.total_sqft,
     electricity_per_sqft |-> Frac(total_electricity, info.total_sqft),
     gas_per_sqft |-> Frac(total_gas, info.total_sqft),
     water_per_sqft |-> Frac(total_water, info.total_sqft),
     peak_electricity |-> SeqMax(electricity),
     peak_gas |-> SeqMax(gas),
     co2_electricity |-> co2_electricity,
     co2_gas |-> co2_gas,
     co2_water |-> IF v = "main" THEN co2_water ELSE None,
     co2_supply |-> IF v = "main" THEN water_co2(130) ELSE None,
     co2_wastewater |-> IF v = "main" THEN water_co2(145) ELSE None,
     co2_total |-> IF v = "main" THEN Add(Add(co2_electricity, co2_gas), co2_water)
                   ELSE Add(co2_electricity, co2_gas)]

EnergyResult(v, info) ==
    IF v = "v1" THEN
        [electricity_per_sqft |-> Frac(total_electricity, info.total_sqft),
         total_co2_tons |-> Add(co2_electricity, co2_gas),
         water_surge |-> SubSeq(water, 7, 9),
         heating_cooling_ratio |-> Frac(SeqMax(gas), SeqMin(gas))]
    ELSE IF v = "v2" THEN
        [monthly_electricity |-> electricity,
         monthly_gas |-> gas,
         monthly_water |-> water,
         electricity_per_sqft |-> Frac(total_electricity, info.total_sqft),
         total_co2_tons |-> Add(co2_electricity, co2_gas),
         water_surge_multiplier |-> water_multiplier(water)]
    ELSE
        [monthly_electricity |-> electricity,
         monthly_gas |-> gas,
         monthly_water |-> water,
         electricity_per_sqft |-> Frac(total_electricity, info.total_sqft),
         total_co2_tons |-> Add(Add(co2_electricity, co2_gas), co2_water),
         co2_breakdown |-> [electricity |-> co2_electricity, gas |-> co2_gas,
                            water |-> co2_water],
         water_surge_multiplier |-> water_multiplier(water)]

(***************************************************************************)
(* correlate_occupancy_with_energy (main and v2).                          *)
(***************************************************************************)
\* the label printed after the electricity coefficient
label_electricity(r) ==
    IF RAbsGreater(r, 3, 10) THEN "(moderate positive)" ELSE "(weak)"

label_gas(r) ==
    IF RLessNeg(r, 1, 2) THEN "(strong negative)"
    ELSE IF RLessNeg(r, 3, 10) THEN "(moderate negative)" ELSE "(weak)"

label_water(r) ==
    IF RGreater(r, 1, 2) THEN "(strong positive)"
    ELSE IF RGreater(r, 3, 10) THEN "(moderate positive)" ELSE "(weak)"

\* avg_occupancy_rate = monthly_swipes.mean() / (356 * 20) * 100
avg_occupancy_rate(ms) == Mul(Div(Mean(ms), Num(356 * 20)), Num(100))

CorrelationPrinted(bd) ==
    LET ms == monthly_swipes(bd)
        ce == pearsonr(ms, electricity)
        cg == pearsonr(ms, gas)
        cw == pearsonr(ms, water)
    IN  [section |-> "correlation",
         coefficients |->
             [electricity |-> [value |-> ce, label |-> label_electricity(ce)],
              gas |-> [value |-> cg, label |-> label_gas(cg)],
              water |-> [value |-> cw, label |-> label_water(cw)]],
         \* the interpretation paragraphs that are printed
         interpretation |->
             [electricity |-> RAbsLess(ce, 2, 5),
              gas |-> RLessNeg(cg, 1, 2),
              water |-> RGreater(cw, 1, 2)],
         occupancy_rate |-> avg_occupancy_rate(ms),
         electricity_per_swipe |-> Div(Mean(electricity), Mean(ms)),
         water_per_swipe |-> Div(Mean(water), Mean(ms))]

CorrelationResultAfterEnergy(bd) ==
    LET ms == monthly_swipes(bd)
    IN  IF results.energy = None
        THEN [corr_electricity |-> NaN, corr_gas |-> NaN, corr_water |-> NaN,
              occupancy_rate |-> avg_occupancy_rate(ms)]
        ELSE [corr_electricity |-> pearsonr(ms, results.energy.monthly_electricity),
              corr_gas |-> pearsonr(ms, results.energy.monthly_gas),
              corr_water |-> pearsonr(ms, results.energy.monthly_water),
              occupancy_rate |-> avg_occupancy_rate(ms)]

CorrelationResult(bd) ==
    LET ms == monthly_swipes(bd)
    IN  [corr_electricity |-> pearsonr(ms, electricity),
         corr_gas |-> pearsonr(ms, gas),
         corr_water |-> pearsonr(ms, water),
         occupancy_rate |-> avg_occupancy_rate(ms)]

(***************************************************************************)
(* Conference bookings.  A row of the booking file is                      *)
(*   [Date, Start, Finish, Attendees, Type, Room]                          *)
(* with Date = [pad, ymd]: pad tells whether the text carries surrounding  *)
(* blanks, ymd is <<year, month, day>> or <<>> for text that is no date;   *)
(* Start and Finish are 12-hour clock texts <<hour, minute, "AM"|"PM">>,   *)
(* or <<>> for text that is no time.                                       *)
(***************************************************************************)
NaT == [k |-> "NaT"]

\* .str.strip()
StripDate(d) == [d EXCEPT !.pad = FALSE]

\* pd.to_datetime(..., errors='coerce') of a stripped date text
ToDatetime(d) ==
    IF d.ymd = <<>> THEN NaT
    ELSE [k |-> "ts", year |-> d.ymd[1], month |-> d.ymd[2], day |-> d.ymd[3]]

\* pd.to_datetime(..., format='%I:%M %p', errors='coerce'): minutes after midnight
ToClock(t) ==
    IF t = <<>> THEN NaT
    ELSE [k |-> "ts",
          minutes |-> (t[1] % 12) * 60 + t[2] + (IF t[3] = "PM" THEN 12 * 60 ELSE 0)]

\* (Finish - Start).dt.total_seconds() / 3600
RawHours(row) ==
    IF ToClock(row.Start) = NaT \/ ToClock(row.Finish) = NaT THEN NaN
    ELSE Frac(ToClock(row.Finish).minutes - ToClock(row.Start).minutes, 60)

\* main, v2: Hours <= 0 -> 15, then Hours > 20 -> 15
ClampHours(h) ==
    IF h.k = "nan" THEN h
    ELSE IF ~Less(Num(0), h) THEN Num(15)
    ELSE IF Less(Num(20), h) THEN Num(15) ELSE h

\* v1: Hours < 0 -> 15, then Hours > 20 -> 15
ClampHoursV1(h) ==
    IF h.k = "nan" THEN h
    ELSE IF Less(h, Num(0)) THEN Num(15)
    ELSE IF Less(Num(20), h) THEN Num(15) ELSE h

Hours(v, row) == IF v = "v1" THEN ClampHoursV1(RawHours(row)) ELSE ClampHours(RawHours(row))

LoadConferenceKeepAll(rows) ==
    [i \in DOMAIN rows |-> [rows[i] EXCEPT !.Date = ToDatetime(StripDate(rows[i].Date))]]

\* load_data: strip and parse Date, drop the rows whose Date is NaT
RECURSIVE LoadConference(_)
LoadConference(rows) ==
    IF rows = <<>> THEN <<>>
    ELSE LET r == Head(rows)
             d == ToDatetime(StripDate(r.Date))
         IN  (IF d = NaT THEN <<>> ELSE <<[r EXCEPT !.Date = d]>>)
             \o LoadConference(Tail(rows))

\* the loaded bookings of every year
df_every_year(cd) == cd

\* self.conference_data[self.conference_data['Date'].dt.year == 2025]
RECURSIVE df_2025(_)
df_2025(cd) ==
    IF cd = <<>> THEN <<>>
    ELSE (IF Head(cd).Date # NaT /\ Head(cd).Date.year = 2025 THEN <<Head(cd)>> ELSE <<>>)
         \o df_2025(Tail(cd))

\* a row of the local df_2025 after lines 315-321: Start and Finish parsed, the
\* Hours column added
DeriveRow(v, r) ==
    [Date |-> r.Date, Start |-> ToClock(r.Start), Finish |-> ToClock(r.Finish),
     Attendees |-> r.Attendees, Type |-> r.Type, Room |-> r.Room,
     Hours |-> Hours(v, r)]

\* the local df_2025 when analyze_conference_room_utilization returns
df_2025_derived(v, cd) == [i \in DOMAIN df_2025(cd) |-> DeriveRow(v, df_2025(cd)[i])]

df_2025_bound_to_conference_data == TRUE

\* whether the name df_2025 is bound to the object self.conference_data: it is
\* bound to the new frame that boolean indexing and .copy() make
df_2025_is_conference_data == FALSE

ghost_v2_or(row) == row.Attendees = 0 \/ row.Type # "All Hands"

\* main, v1: ghost = df_2025['#Attendees'] == 0
ghost(row) == row.Attendees = 0

\* v2: (df_2025['#Attendees'] == 0) & (df_2025['Attendance Type'] != 'All Hands')
ghost_v2(row) == row.Attendees = 0 /\ row.Type # "All Hands"

\* v2: (df_2025['#Attendees'] == 0) & (df_2025['Attendance Type'] == 'All Hands')
all_hands_zero(row) == row.Attendees = 0 /\ row.Type = "All Hands"

IsGhost(v, row) == IF v = "v2" THEN ghost_v2(row) ELSE ghost(row)

\* mask.sum()
CountIf(df, P(_)) == Cardinality({i \in DOMAIN df : P(df[i])})

RECURSIVE AttendeeSum(_)
AttendeeSum(df) == IF df = <<>> THEN 0 ELSE Head(df).Attendees + AttendeeSum(Tail(df))

\* df_2025['Hours'].sum()
HoursSum(v, df) == ValSumSkipNa([i \in DOMAIN df |-> Hours(v, df[i])])

ghost_hours_of_all_bookings(v, df) == HoursSum(v, df)

\* df_2025[ghost]['Hours'].sum()
ghost_hours(v, df) ==
    ValSumSkipNa([i \in DOMAIN df |->
                    IF IsGhost(v, df[i]) THEN Hours(v, df[i]) ELSE NaN])

\* df_2025['Attendance Type'].value_counts(), before sorting: type -> count
value_counts(df) ==
    [t \in {df[i].Type : i \in DOMAIN df} |->
        Cardinality({i \in DOMAIN df : df[i].Type = t})]

\* the first n types in every order whatever their counts
RECURSIVE UnsortedHeads(_, _, _)
UnsortedHeads(vc, rest, n) ==
    IF n = 0 \/ rest = {} THEN {<<>>}
    ELSE UNION { {<<t>> \o o : o \in UnsortedHeads(vc, rest \ {t}, n - 1)} : t \in rest }

\* the index of value_counts().head(n) in each order the sort can give: counts
\* descending, types of equal count in any order
RECURSIVE SortedHeads(_, _, _)
SortedHeads(vc, rest, n) ==
    IF n = 0 \/ rest = {} THEN {<<>>}
    ELSE UNION { {<<t>> \o o : o \in SortedHeads(vc, rest \ {t}, n - 1)} :
                 t \in {t \in rest : \A u \in rest : vc[u] <= vc[t]} }

\* the lines of lines 339-341 for one order; total is len(df_2025)
TopBookingTypes(vc, order, total) ==
    [i \in DOMAIN order |->
        [type |-> order[i], count |-> vc[order[i]],
         pct |-> Mul(Div(Num(vc[order[i]]), Num(total)), Num(100))]]

\* every list of lines the loop of line 339 can print for the frame df
BookingTypesPrintable(df) ==
    {TopBookingTypes(value_counts(df), o, Len(df)) :
        o \in SortedHeads(value_counts(df), DOMAIN value_counts(df), 5)}

ConferencePrinted(v, cd) ==
    LET df == df_2025(cd)
        g  == CountIf(df, LAMBDA r : IsGhost(v, r))
    IN  [section |-> "conference",
         total_bookings |-> Len(df),
         total_attendees |-> AttendeeSum(df),
         total_hours |-> IF v = "v1" THEN None ELSE HoursSum(v, df),
         ghost_bookings |-> g,
         ghost_pct |-> Mul(Frac(g, Len(df)), Num(100)),
         all_hands_zero |-> IF v = "v2" THEN CountIf(df, all_hands_zero) ELSE 0,
         wasted_hours |-> ghost_hours(v, df),
         wasted_energy_kwh |-> IF v = "v1" THEN None
                               ELSE Mul(ghost_hours(v, df), Num(5))]

ConferenceResult(v, cd) ==
    LET df == df_2025(cd)
        g  == CountIf(df, LAMBDA r : IsGhost(v, r))
    IN  IF v = "v1" THEN
            [total_bookings |-> Len(df), ghost_bookings |-> g]
        ELSE
            [total_bookings |-> Len(df),
             ghost_bookings |-> g,
             ghost_hours |-> ghost_hours(v, df),
             wasted_energy_kwh |-> Mul(ghost_hours(v, df), Num(5))]

(***************************************************************************)
(* advanced_metrics_analysis (main): the returned bundle.                  *)
(***************************************************************************)
annual_sqft_cost == 25

full_remote_through_20(t) == t <= 20

mostly_remote_from_30(t) == t >= 30 /\ t < 90

full_remote(t) == t < 20
mostly_remote(t) == t >= 20 /\ t < 90

\* (5_666_000 * 0.15) + (273_000 * 1.20) + (129_777_000 * 0.01)
total_annual_cost ==
    Add(Add(Mul(Num(total_electricity), Frac(15, 100)), Mul(Num(total_gas), Frac(120, 100))),
        Mul(Num(total_water), Frac(1, 100)))

large_rooms == {"Auditorium A", "Auditorium B", "Auditorium C"}
medium_rooms ==
    {"Room 128", "Room 129", "Room 130", "Room 131", "Room 132", "Room 133", "Room 135"}

\* room_data = df_2025[df_2025['Room'].isin(room_list)]
room_data(df, room_list) == SelectSeq(df, LAMBDA r : r.Room \in room_list)

room_guard_absent(rd) == TRUE

\* if len(room_data) > 0:
room_guard(rd) == Len(rd) > 0

\* room_data[room_data['#Attendees'] > 0]['#Attendees'].mean()
avg_attendees(rd) ==
    LET present == SelectSeq(rd, LAMBDA r : r.Attendees > 0)
    IN  ValMean([i \in DOMAIN present |-> Num(present[i].Attendees)])

\* what section 5 prints for one room category; None when nothing is printed
RoomCategoryPrinted(df, room_list) ==
    LET rd == room_data(df, room_list)
    IN  IF room_guard(rd) THEN
            [bookings |-> Len(rd),
             avg_attendees |-> avg_attendees(rd),
             ghost_pct |-> Mul(Frac(CountIf(rd, ghost), Len(rd)), Num(100))]
        ELSE None

\* Series.nsmallest(n), keep='first': the n positions of the smallest values in
\* ascending order of value, equal values in order of appearance
RECURSIVE SmallestFirst(_, _, _)
SmallestFirst(s, n, taken) ==
    LET rest == DOMAIN s \ taken
    IN  IF n = 0 \/ rest = {} THEN <<>>
        ELSE LET i == CHOOSE i \in rest :
                          \A j \in rest : s[i] < s[j] \/ (s[i] = s[j] /\ i <= j)
             IN  <<i>> \o SmallestFirst(s, n - 1, taken \cup {i})

nsmallest(s, n) == SmallestFirst(s, n, {})

nlargest_ascending(s, n) == SmallestFirst(s, n, {})

\* Series.nlargest(n), keep='first': the n positions of the largest values in
\* descending order of value, equal values in order of appearance
RECURSIVE LargestFirst(_, _, _)
LargestFirst(s, n, taken) ==
    LET rest == DOMAIN s \ taken
    IN  IF n = 0 \/ rest = {} THEN <<>>
        ELSE LET i == CHOOSE i \in rest :
                          \A j \in rest : s[j] < s[i] \/ (s[i] = s[j] /\ i <= j)
             IN  <<i>> \o LargestFirst(s, n - 1, taken \cup {i})

nlargest(s, n) == LargestFirst(s, n, {})

\* section 1: the positions (1 = Jan) of peak_months and low_months, their
\* means, and the printed percentage difference
PeakLowPrinted(ms) ==
    LET peak_months == nlargest(ms, 3)
        low_months  == nsmallest(ms, 3)
        peak_mean   == Mean([i \in 1..3 |-> ms[peak_months[i]]])
        low_mean    == Mean([i \in 1..3 |-> ms[low_months[i]]])
    IN  [peak_months |-> peak_months,
         low_months |-> low_months,
         peak_mean |-> peak_mean,
         low_mean |-> low_mean,
         variance |-> Mul(Div(Add(peak_mean, Mul(Num(-1), low_mean)), low_mean), Num(100))]

\* min(efficiency_scores, key=efficiency_scores.get) raises ValueError when no
\* floor has an employee (efficiency_scores is empty)
AdvancedRaises(bd) == FloorsOf(bd) = {}

AdvancedResult(bd) ==
    LET remote_employees == CountRows(bd, full_remote) + CountRows(bd, mostly_remote)
        total_swipes_annual == Mul(Num(SeqSum(monthly_swipes(bd))), Frac(12, 9))
    IN  [eui_current |-> Frac(315, 10),
         eui_target |-> Num(10),
         remote_employees |-> remote_employees,
         space_reduction_potential |-> remote_employees * 120,
         cost_per_swipe |-> Div(total_annual_cost, total_swipes_annual)]

\* what is printed up to the ValueError of line 397
AdvancedPrintedUntilFault == [section |-> "advanced", fault |-> "ValueError"]

AdvancedPrinted(bd, cd) ==
    LET r == AdvancedResult(bd)
    IN  [section |-> "advanced",
         fault |-> "",
         peak_low |-> PeakLowPrinted(monthly_swipes(bd)),
         rooms |-> [large |-> RoomCategoryPrinted(df_2025(cd), large_rooms),
                    medium |-> RoomCategoryPrinted(df_2025(cd), medium_rooms)],
         remote_employees |-> r.remote_employees,
         space_reduction |-> r.space_reduction_potential,
         space_savings |-> r.space_reduction_potential * annual_sqft_cost,
         cost_per_swipe |-> r.cost_per_swipe]

(***************************************************************************)
(* generate_summary_report (main, v2): fixed text.                         *)
(***************************************************************************)
SummaryPrinted(v) ==
    IF v = "main" THEN
        [section |-> "summary", co2_total |-> 4400, co2_electricity |-> 2606,
         co2_gas |-> 1598, co2_water |-> 1641]
    ELSE
        [section |-> "summary", co2_total |-> 2800]

(***************************************************************************)
(* The input files.                                                        *)
(***************************************************************************)
MaxEmployees == 2
MaxBookings == 2

\* a badge row on floor f: a swipes in each of the first k months, b after
BadgeRow(f, a, b, k) ==
    [Floor |-> f, swipes |-> [m \in 1..NumMonths |-> IF m <= k THEN a ELSE b]]

\* 9-month totals 0, 90, 180, 30, 140, 20, 89
SwipeShapes ==
    { <<0, 0, 0>>, <<10, 10, 0>>, <<20, 20, 0>>, <<10, 0, 3>>, <<20, 0, 7>>,
      <<0, 10, 7>>, <<9, 10, 1>> }

BadgeRows ==
    {BadgeRow(1, t[1], t[2], t[3]) : t \in SwipeShapes}
    \cup {BadgeRow(2, 10, 10, 0), BadgeRow(2, 20, 0, 7)}

BadgeFiles == UNION {[1..n -> BadgeRows] : n \in 0..MaxEmployees}

Booking(date, start, finish, att, type, room) ==
    [Date |-> date, Start |-> start, Finish |-> finish, Attendees |-> att,
     Type |-> type, Room |-> room]

D25 == [pad |-> TRUE, ymd |-> <<2025, 3, 14>>]
D24 == [pad |-> FALSE, ymd |-> <<2024, 11, 5>>]
DBad == [pad |-> TRUE, ymd |-> <<>>]

BookingRows ==
    { Booking(D25, <<9, 0, "AM">>, <<10, 30, "AM">>, 8, "Meeting", "Room 128"),
      Booking(D25, <<9, 0, "AM">>, <<10, 0, "AM">>, 0, "Meeting", "Room 128"),
      Booking(D25, <<12, 0, "AM">>, <<12, 0, "AM">>, 0, "All Hands", "Auditorium A"),
      Booking(D25, <<1, 0, "PM">>, <<3, 0, "PM">>, 120, "All Hands", "Auditorium A"),
      Booking(D25, <<12, 0, "AM">>, <<11, 0, "PM">>, 0, "Training", "Glen"),
      Booking(D25, <<10, 0, "AM">>, <<9, 0, "AM">>, 5, "Training", "Auditorium B"),
      Booking(D24, <<9, 0, "AM">>, <<10, 0, "AM">>, 0, "Meeting", "Glen"),
      Booking(D24, <<12, 0, "PM">>, <<1, 0, "PM">>, 0, "All Hands", "Auditorium A"),
      Booking(DBad, <<9, 0, "AM">>, <<10, 0, "AM">>, 0, "Meeting", "Room 128"),
      Booking(D25, <<>>, <<10, 0, "AM">>, 3, "Meeting", "Room 129") }

ConferenceFiles == UNION {[1..n -> BookingRows] : n \in 0..MaxBookings}

EnergyFiles ==
    { <<[Electricity |-> 463000, Gas |-> 48000, Water |-> 5978000]>>,
      <<[Electricity |-> 400000, Gas |-> 50000, Water |-> 6000000],
        [Electricity |-> 500000, Gas |-> 40000, Water |-> 7000000]>> }

BaseBadge == <<BadgeRow(1, 10, 0, 3), BadgeRow(2, 20, 0, 7)>>
BaseConference ==
    << Booking(D25, <<9, 0, "AM">>, <<10, 30, "AM">>, 8, "Meeting", "Room 128"),
       Booking(D25, <<12, 0, "AM">>, <<12, 0, "AM">>, 0, "All Hands", "Auditorium A") >>
BaseEnergy == <<[Electricity |-> 463000, Gas |-> 48000, Water |-> 5978000]>>

\* the runs explored: one file varies, the other two are the base files
Inputs ==
    {[badge |-> b, energy |-> BaseEnergy, conference |-> BaseConference] : b \in BadgeFiles}
    \cup
    {[badge |-> BaseBadge, energy |-> BaseEnergy, conference |-> c] : c \in ConferenceFiles}
    \cup
    {[badge |-> BaseBadge, energy |-> e, conference |-> BaseConference] : e \in EnergyFiles}

(***************************************************************************)
(* Initial state and printing.                                             *)
(***************************************************************************)
NoResults ==
    [occupancy |-> None, energy |-> None, correlation |-> None, conference |-> None,
     advanced |-> None]

Init ==
    /\ version \in Versions
    /\ files \in Inputs
    /\ badge_data = None
    /\ energy_data = None
    /\ conference_data = None
    /\ building_info = BuildingInfo
    /\ local_df = None
    /\ results = NoResults
    /\ report = <<>>
    /\ stdout = "console"
    /\ pc = "start"
    /\ fn = "none" /\ args = <<>> /\ ret = None

\* print(...): the lines of one section go to sys.stdout
Emit(out) == report' = Append(report, [to |-> stdout, out |-> out])

(***************************************************************************)
(* The methods of Building37Analyzer: what one call does to the analyzer,  *)
(* to the local frame, to the dict it returns and to the report.           *)
(***************************************************************************)
load_data ==
    /\ badge_data' = DataFrame(files.badge)
    /\ energy_data' = DataFrame(files.energy)
    /\ conference_data' = DataFrame(LoadConference(files.conference))
    /\ Emit([section |-> "load",
             badge |-> Len(files.badge),
             energy |-> Len(files.energy),
             conference |-> Len(LoadConference(files.conference))])
    /\ UNCHANGED <<building_info, local_df, results>>

analyze_occupancy_patterns ==
    /\ IF version = "v1"
       THEN /\ Emit(OccupancyPrintedV1(badge_data.rows))
            /\ results' = [results EXCEPT !.occupancy = OccupancyResultV1(badge_data.rows)]
       ELSE /\ Emit(OccupancyPrinted(badge_data.rows, building_info))
            /\ results' = [results EXCEPT
                              !.occupancy = OccupancyResult(badge_data.rows, building_info)]
    /\ UNCHANGED <<analyzer, local_df>>

analyze_energy_consumption ==
    /\ Emit(EnergyPrinted(version, building_info))
    /\ results' = [results EXCEPT !.energy = EnergyResult(version, building_info)]
    /\ UNCHANGED <<analyzer, local_df>>

correlate_occupancy_with_energy ==
    /\ Emit(CorrelationPrinted(badge_data.rows))
    /\ results' = [results EXCEPT !.correlation = CorrelationResult(badge_data.rows)]
    /\ UNCHANGED <<analyzer, local_df>>

\* lines 312-321 make df_2025 and write Start, Finish and Hours to it
analyze_conference_room_utilization ==
    /\ local_df' = DataFrame(df_2025_derived(version, conference_data.rows))
    /\ conference_data' =
         IF df_2025_is_conference_data
         THEN DataFrame(df_2025_derived(version, conference_data.rows))
         ELSE conference_data
    /\ \E top \in BookingTypesPrintable(df_2025(conference_data.rows)) :
          Emit(ConferencePrinted(version, conference_data.rows)
                 @@ [booking_types |-> top])
    /\ results' = [results EXCEPT
                      !.conference = ConferenceResult(version, conference_data.rows)]
    /\ UNCHANGED <<badge_data, energy_data, building_info>>

\* raises at line 397 for a badge table without rows, before df_2025 is made
advanced_metrics_analysis ==
    /\ IF AdvancedRaises(badge_data.rows)
       THEN /\ Emit(AdvancedPrintedUntilFault)
            /\ UNCHANGED <<local_df, results>>
       ELSE /\ local_df' = DataFrame(df_2025(conference_data.rows))
            /\ Emit(AdvancedPrinted(badge_data.rows, conference_data.rows))
            /\ results' = [results EXCEPT !.advanced = AdvancedResult(badge_data.rows)]
    /\ UNCHANGED analyzer

generate_summary_report ==
    /\ Emit(SummaryPrinted(version))
    /\ UNCHANGED <<analyzer, local_df, results>>

(***************************************************************************)
(* The main script, statement by statement.                                *)
(***************************************************************************)
script == <<version, files, stdout, call>>

\* main: with open('building_analysis_report.txt', 'w') as f: sys.stdout = f
OpenReport ==
    /\ version = "main"
    /\ pc = "start"
    /\ stdout' = "file"
    /\ pc' = "opened"
    /\ UNCHANGED <<version, files, analyzer, local_df, results, report, call>>

main_load_data ==
    /\ pc = IF version = "main" THEN "opened" ELSE "start"
    /\ load_data
    /\ pc' = "loaded"
    /\ UNCHANGED script

main_analyze_occupancy_patterns ==
    /\ pc = "loaded"
    /\ analyze_occupancy_patterns
    /\ pc' = "occupancy"
    /\ UNCHANGED script

main_analyze_energy_consumption ==
    /\ pc = "occupancy"
    /\ analyze_energy_consumption
    /\ pc' = "energy"
    /\ UNCHANGED script

main_correlate_occupancy_with_energy ==
    /\ version # "v1"
    /\ pc = "energy"
    /\ correlate_occupancy_with_energy
    /\ pc' = "correlation"
    /\ UNCHANGED script

main_analyze_conference_room_utilization ==
    /\ pc = IF version = "v1" THEN "energy" ELSE "correlation"
    /\ analyze_conference_room_utilization
    /\ pc' = "conference"
    /\ UNCHANGED script

\* an exception of the method ends the script: nothing after the call runs
main_advanced_metrics_analysis ==
    /\ version = "main"
    /\ pc = "conference"
    /\ advanced_metrics_analysis
    /\ pc' = IF AdvancedRaises(badge_data.rows) THEN "failed" ELSE "advanced"
    /\ UNCHANGED script

main_summary_without_advanced ==
    /\ version # "v1"
    /\ pc = "conference"
    /\ generate_summary_report
    /\ pc' = "summary"
    /\ UNCHANGED script

main_generate_summary_report ==
    /\ version # "v1"
    /\ pc = IF version = "main" THEN "advanced" ELSE "conference"
    /\ generate_summary_report
    /\ pc' = "summary"
    /\ UNCHANGED script

\* the end of the script: the completion line; main leaves the with block
\* (the file is closed), resets sys.stdout and tells the console
Finish ==
    /\ pc = IF version = "v1" THEN "conference" ELSE "summary"
    /\ report' =
         IF version = "main"
         THEN report \o <<[to |-> stdout, out |-> [section |-> "complete"]],
                          [to |-> "console", out |-> [section |-> "saved"]]>>
         ELSE IF version = "v1"
         THEN Append(report, [to |-> stdout, out |-> [section |-> "complete"]])
         ELSE report
    /\ stdout' = "console"
    /\ pc' = "done"
    /\ UNCHANGED <<version, files, analyzer, local_df, results, call>>

Next ==
    \/ OpenReport
    \/ main_load_data
    \/ main_analyze_occupancy_patterns
    \/ main_analyze_energy_consumption
    \/ main_correlate_occupancy_with_energy
    \/ main_analyze_conference_room_utilization
    \/ main_advanced_metrics_analysis
    \/ main_generate_summary_report
    \/ Finish

Spec == Init /\ [][Next]_vars

(***************************************************************************)
(* A client of the class: it loads an analyzer and calls the methods in    *)
(* any order, any number of times (at most MaxCalls calls); the utility    *)
(* file on disk may be replaced before load_data is called again.          *)
(***************************************************************************)
MaxCalls == 4

MixedConference ==
    << Booking(DBad, <<9, 0, "AM">>, <<10, 0, "AM">>, 0, "Meeting", "Room 128"),
       Booking(D25, <<12, 0, "AM">>, <<11, 0, "PM">>, 0, "Training", "Glen"),
       Booking(D24, <<9, 0, "AM">>, <<10, 0, "AM">>, 0, "Meeting", "Glen") >>

InputsOrder ==
    { [badge |-> BaseBadge, energy |-> BaseEnergy, conference |-> BaseConference],
      [badge |-> <<>>, energy |-> BaseEnergy, conference |-> BaseConference],
      [badge |-> BaseBadge, energy |-> BaseEnergy, conference |-> MixedConference] }

InitOrder ==
    /\ version \in Versions
    /\ files \in InputsOrder
    /\ badge_data = None
    /\ energy_data = None
    /\ conference_data = None
    /\ building_info = BuildingInfo
    /\ local_df = None
    /\ results = NoResults
    /\ report = <<>>
    /\ stdout = "console"
    /\ pc = "client"
    /\ fn = "none" /\ args = <<>> /\ ret = None

client == <<version, files, stdout, pc, call>>

MayCall == Len(report) < MaxCalls
Loaded == badge_data # None

\* another utility file is put in the place of the one on disk
ReplaceEnergyFile ==
    /\ \E e \in EnergyFiles \ {files.energy} : files' = [files EXCEPT !.energy = e]
    /\ files.energy = BaseEnergy
    /\ Loaded
    /\ UNCHANGED <<version, analyzer, local_df, results, report, stdout, pc, call>>

ClientLoad ==
    /\ MayCall
    /\ load_data
    /\ UNCHANGED client

CallOccupancy ==
    /\ Loaded /\ MayCall
    /\ analyze_occupancy_patterns
    /\ UNCHANGED client

CallEnergy ==
    /\ Loaded /\ MayCall
    /\ analyze_energy_consumption
    /\ UNCHANGED client

CallCorrelation ==
    /\ version # "v1"
    /\ Loaded /\ MayCall
    /\ correlate_occupancy_with_energy
    /\ UNCHANGED client

CallConference ==
    /\ Loaded /\ MayCall
    /\ analyze_conference_room_utilization
    /\ UNCHANGED client

CallAdvanced ==
    /\ version = "main"
    /\ Loaded /\ MayCall
    /\ advanced_metrics_analysis
    /\ UNCHANGED client

CallSummary ==
    /\ version # "v1"
    /\ Loaded /\ MayCall
    /\ generate_summary_report
    /\ UNCHANGED client

NextOrder ==
    \/ ReplaceEnergyFile
    \/ ClientLoad
    \/ CallOccupancy
    \/ CallEnergy
    \/ CallCorrelation
    \/ CallConference
    \/ CallAdvanced
    \/ CallSummary

SpecOrder == InitOrder /\ [][NextOrder]_vars

(***************************************************************************)
(* The computations applied on their own, to arguments drawn from bounded  *)
(* sets: one application per behaviour, recorded in fn, args, ret.         *)
(***************************************************************************)
MaxLen == 3
MaxScale == 2

SeriesOver(S, lo, hi) == UNION {[1..n -> S] : n \in lo..hi}

\* a 9-month series: a in each of the first k months, b after
StepSeries(a, b, k) == [m \in 1..NumMonths |-> IF m <= k THEN a ELSE b]

InitFn ==
    /\ version = "main"
    /\ files = [badge |-> BaseBadge, energy |-> BaseEnergy, conference |-> BaseConference]
    /\ badge_data = None
    /\ energy_data = None
    /\ conference_data = None
    /\ building_info = BuildingInfo
    /\ local_df = None
    /\ results = NoResults
    /\ report = <<>>
    /\ stdout = "console"
    /\ pc = "start"
    /\ fn = "none" /\ args = <<>> /\ ret = None

program == <<version, files, analyzer, local_df, results, report, stdout, pc>>

\* stats.pearsonr(x, y)[0] of two short series
CallPearsonr ==
    /\ fn = "none"
    /\ \E x \in SeriesOver({0, 1, 2}, 2, MaxLen) :
       \E y \in SeriesOver({0, 1, 2}, Len(x), Len(x)) :
          /\ fn' = "pearsonr"
          /\ args' = <<x, y>>
          /\ ret' = pearsonr(x, y)
    /\ UNCHANGED program

\* stats.pearsonr of a series and a*x + b
CallPearsonrAffine ==
    /\ fn = "none"
    /\ \E x \in SeriesOver({0, 10, 20}, 2, MaxLen), a \in 1..MaxScale, b \in {0, 5} :
          /\ fn' = "pearsonr_affine"
          /\ args' = <<x, [i \in DOMAIN x |-> a * x[i] + b]>>
          /\ ret' = pearsonr(x, [i \in DOMAIN x |-> a * x[i] + b])
    /\ UNCHANGED program

\* stats.pearsonr(monthly_swipes, resource)[0] for the three resource series
CallPearsonrResource ==
    /\ fn = "none"
    /\ \E a \in {0, 10, 25}, b \in {0, 10, 25}, k \in {2, 4, 7},
          name \in {"electricity", "gas", "water"} :
          LET res == IF name = "electricity" THEN electricity
                     ELSE IF name = "gas" THEN gas ELSE water
          IN  /\ fn' = "pearsonr_resource"
              /\ args' = <<StepSeries(a, b, k), name>>
              /\ ret' = pearsonr(StepSeries(a, b, k), res)
    /\ UNCHANGED program

\* the rate of one month for two swipe totals s1 < s2
CallAttendanceRate ==
    /\ fn = "none"
    /\ \E s1 \in {0, 1, 7, 19, 20, 356}, s2 \in {1, 2, 8, 20, 21, 357, 1000},
          n \in {1, 3, 100, 356}, w \in {1, 20, 22} :
          /\ s1 < s2
          /\ fn' = "attendance_rate"
          /\ args' = <<s1, s2, n, w>>
          /\ ret' = <<attendance_rate(s1, n, w), attendance_rate(s2, n, w)>>
    /\ UNCHANGED program

\* the monthly table of the occupancy section for given monthly totals
CallOccupancyMetrics ==
    /\ fn = "none"
    /\ \E s \in {0, 500, 1000, 7120}, n \in {1, 100, 356}, w \in {20, 22} :
          /\ fn' = "occupancy_metrics"
          /\ args' = <<StepSeries(s, s, 0), n, w>>
          /\ ret' = [m \in 1..NumMonths |->
                        [avg_days |-> avg_days(s, n),
                         rate |-> attendance_rate(s, n, w),
                         avg_days_v1 |-> avg_days_in_office_v1(s, n)]]
    /\ UNCHANGED program

\* water_multiplier of a 9-month water series
CallWaterMultiplier ==
    /\ fn = "none"
    /\ \E a \in {0, 100, 300}, b \in {0, 100, 300}, k \in {0, 2, 5, 6} :
          /\ fn' = "water_multiplier"
          /\ args' = <<StepSeries(a, b, k)>>
          /\ ret' = water_multiplier(StepSeries(a, b, k))
    /\ UNCHANGED program

\* section 1 of advanced_metrics_analysis for a 9-month series of totals
CallPeakLowMonths ==
    /\ fn = "none"
    /\ \E ms \in [1..NumMonths -> 0..MaxScale] :
          /\ fn' = "peak_low_months"
          /\ args' = <<ms>>
          /\ ret' = PeakLowPrinted(ms)
    /\ UNCHANGED program

TypeNames == {"Meeting", "All Hands", "Training", "Interview", "Workshop", "Social"}

\* the loop of lines 339-341 for a frame with c[t] bookings of type t
CallTopBookingTypes ==
    /\ fn = "none"
    /\ \E c \in [TypeNames -> 0..MaxScale] :
          LET present == {t \in TypeNames : c[t] > 0}
              vc      == [t \in present |-> c[t]]
              total   == FnSum(vc, present)
          IN  \E o \in SortedHeads(vc, present, 5) :
                 /\ fn' = "top_booking_types"
                 /\ args' = <<vc, total>>
                 /\ ret' = TopBookingTypes(vc, o, total)
    /\ UNCHANGED program

NextFn ==
    \/ CallPearsonr
    \/ CallPearsonrAffine
    \/ CallPearsonrResource
    \/ CallAttendanceRate
    \/ CallOccupancyMetrics
    \/ CallWaterMultiplier
    \/ CallPeakLowMonths
    \/ CallTopBookingTypes

SpecFn == InitFn /\ [][NextFn]_vars

(***************************************************************************)
(* Properties.                                                             *)
(***************************************************************************)
HasPrinted(sec) == \E i \in DOMAIN report : report[i].out.section = sec
Printed(sec) == report[CHOOSE i \in DOMAIN report : report[i].out.section = sec].out

IsConstant(s) == \A i, j \in DOMAIN s : s[i] = s[j]

RECURSIVE ValFnSum(_, _)
ValFnSum(f, S) ==
    IF S = {} THEN Num(0)
    ELSE LET x == CHOOSE y \in S : TRUE IN Add(f[x], ValFnSum(f, S \ {x}))

TiersMatched(t) ==
    (IF very_low_util(t) THEN 1 ELSE 0) + (IF low_util(t) THEN 1 ELSE 0)
    + (IF medium_util(t) THEN 1 ELSE 0) + (IF high_util(t) THEN 1 ELSE 0)

\* C1: every employee's 9-month total satisfies exactly one of the four tier
\* predicates, and the four tier counts printed by analyze_occupancy_patterns
\* (main, v2) add up to the number of employees.
C1_TiersPartition ==
    badge_data # None =>
        /\ \A i \in DOMAIN badge_data.rows :
              TiersMatched(total_swipes(badge_data.rows[i])) = 1
        /\ (version # "v1" /\ HasPrinted("occupancy")) =>
              LET p == Printed("occupancy")
              IN  p.very_low + p.low + p.medium + p.high = Len(badge_data.rows)

C1_Witness ==
    /\ version = "main"
    /\ HasPrinted("occupancy")
    /\ Len(badge_data.rows) = 2
    /\ total_swipes(badge_data.rows[1]) = 30
    /\ total_swipes(badge_data.rows[2]) = 140
    /\ Printed("occupancy").low = 1
    /\ Printed("occupancy").high = 1

PearsonCall == fn \in {"pearsonr", "pearsonr_affine", "pearsonr_resource"}

PearsonX == args[1]
PearsonY ==
    IF fn # "pearsonr_resource" THEN args[2]
    ELSE IF args[2] = "electricity" THEN electricity
    ELSE IF args[2] = "gas" THEN gas ELSE water

\* C2: for two equal-length series that are both non-constant, Pearson's r is
\* defined and -1 <= r <= 1 (cov^2 <= var(x) * var(y)); so it is for monthly
\* swipes against each of the electricity, gas and water series.
C2_PearsonBounded ==
    (PearsonCall /\ ~IsConstant(PearsonX) /\ ~IsConstant(PearsonY)) =>
        /\ ret.k = "r"
        /\ RInUnit(ret)

C2_Witness ==
    /\ fn = "pearsonr_resource"
    /\ args[2] = "water"
    /\ ~IsConstant(args[1])
    /\ ret.k = "r"
    /\ ret.sg = -1
    /\ BigCmp(ret.c2, ret.vv) < 0

\* C3: when the 9 monthly swipe totals are all equal, each coefficient returned
\* by correlate_occupancy_with_energy is the undefined marker (nan), not a number.
C3_ConstantSwipesUndefined ==
    (results.correlation # None /\ IsConstant(monthly_swipes(badge_data.rows))) =>
        /\ results.correlation.corr_electricity = NaN
        /\ results.correlation.corr_gas = NaN
        /\ results.correlation.corr_water = NaN

C3_Witness ==
    /\ pc = "correlation"
    /\ Len(badge_data.rows) = 2
    /\ monthly_swipes(badge_data.rows)[1] = 30
    /\ IsConstant(monthly_swipes(badge_data.rows))
    /\ results.correlation.corr_gas = NaN

StrengthLabels ==
    {"(weak)", "(moderate positive)", "(moderate negative)", "(strong positive)",
     "(strong negative)"}

\* C4: an undefined coefficient is not printed under a strength label (weak,
\* moderate, strong) in the correlation section.
C4_UndefinedNotLabelled ==
    HasPrinted("correlation") =>
        \A res \in {"electricity", "gas", "water"} :
            LET c == Printed("correlation").coefficients[res]
            IN  c.value = NaN => c.label \notin StrengthLabels

\* C5: for a badge table with at least one swipe, the per-floor share
\* percentages printed by analyze_occupancy_patterns add up to 100, and the
\* per-floor swipe totals add up to all swipes of the table.
C5_FloorSharesSumTo100 ==
    (HasPrinted("occupancy") /\ SeqSum(monthly_swipes(badge_data.rows)) > 0) =>
        LET p == Printed("occupancy").floors
        IN  /\ ValFnSum([f \in DOMAIN p |-> p[f].pct], DOMAIN p) = Num(100)
            /\ FnSum([f \in DOMAIN p |-> p[f].swipes], DOMAIN p)
                 = SeqSum(monthly_swipes(badge_data.rows))

C5_Witness ==
    /\ HasPrinted("occupancy")
    /\ DOMAIN Printed("occupancy").floors = {1, 2}
    /\ Printed("occupancy").floors[1].pct = Frac(100, 4)
    /\ Printed("occupancy").floors[2].pct = Num(75)

ZeroAttendee2025 ==
    {i \in DOMAIN conference_data.rows :
        /\ conference_data.rows[i].Date.year = 2025
        /\ conference_data.rows[i].Attendees = 0}

ZeroAttendeeAllHands2025 ==
    {i \in ZeroAttendee2025 : conference_data.rows[i].Type = "All Hands"}

\* C6: on the same bookings, the ghost count of v2 (zero attendees and type not
\* 'All Hands') is the ghost count of main (zero attendees) minus the number of
\* zero-attendee 'All Hands' bookings of 2025, hence never larger.
C6_GhostExclusion ==
    results.conference # None =>
        /\ version = "main" =>
              results.conference.ghost_bookings = Cardinality(ZeroAttendee2025)
        /\ version = "v2" =>
              /\ results.conference.ghost_bookings
                   = Cardinality(ZeroAttendee2025) - Cardinality(ZeroAttendeeAllHands2025)
              /\ results.conference.ghost_bookings <= Cardinality(ZeroAttendee2025)
              /\ Printed("conference").all_hands_zero
                   = Cardinality(ZeroAttendeeAllHands2025)

C6_Witness ==
    /\ version = "v2"
    /\ pc = "conference"
    /\ Cardinality(ZeroAttendee2025) = 2
    /\ Cardinality(ZeroAttendeeAllHands2025) = 1
    /\ results.conference.ghost_bookings = 1

\* C7: for a fixed employee count > 0 and working days > 0 the attendance rate
\* grows strictly with the monthly swipes: s1 < s2 gives rate(s1) < rate(s2).
C7_RateMonotonic ==
    (fn = "attendance_rate" /\ args[1] < args[2] /\ args[3] > 0 /\ args[4] > 0) =>
        Less(ret[1], ret[2])

C7_Witness ==
    /\ fn = "attendance_rate"
    /\ args = <<19, 20, 356, 20>>
    /\ Less(ret[1], ret[2])

Scenario1000 == <<StepSeries(1000, 1000, 0), 100, 20>>

\* C8 as stated: 1000 swipes in each month, 100 employees and 20 working days
\* give avgDays = 0.5 and attendanceRate = 2.5% for every month.
C8_Original ==
    (fn = "occupancy_metrics" /\ args = Scenario1000) =>
        \A m \in 1..NumMonths :
            ret[m].avg_days = Frac(1, 2) /\ ret[m].rate = Frac(5, 2)

\* C8 amended: 1000 swipes in each month, 100 employees and 20 working days
\* give avgDays = 10 and attendanceRate = 50% for every month (main, v2); the
\* v1 script's average days in office is 0.5.
C8_Amended ==
    (fn = "occupancy_metrics" /\ args = Scenario1000) =>
        \A m \in 1..NumMonths :
            /\ ret[m].avg_days = Num(10)
            /\ ret[m].rate = Num(50)
            /\ ret[m].avg_days_v1 = Frac(1, 2)

C8_Witness ==
    /\ fn = "occupancy_metrics"
    /\ args = Scenario1000
    /\ ret[9].rate = Num(50)

\* C9: the water surge multiplier is the mean of months 7-9 over the mean of
\* months 3-5; for [100,100,100,100,100,100,300,300,300] it is 3.
C9_WaterSurge ==
    fn = "water_multiplier" =>
        LET w == args[1]
        IN  /\ ret = Frac(w[7] + w[8] + w[9], w[3] + w[4] + w[5])
            /\ w = <<100, 100, 100, 100, 100, 100, 300, 300, 300>> => ret = Num(3)

C9_Witness ==
    /\ fn = "water_multiplier"
    /\ args[1] = <<100, 100, 100, 100, 100, 100, 300, 300, 300>>
    /\ ret = Num(3)

\* C10: Pearson's r of a non-constant series with a*x + b (a > 0) is 1; so it
\* is for [10,20] with [10,20].
C10_AffineIsOne ==
    (fn = "pearsonr_affine" /\ ~IsConstant(args[1])) => (ret.k = "r" /\ RIsOne(ret))

C10_Witness ==
    /\ fn = "pearsonr_affine"
    /\ args = << <<10, 20>>, <<10, 20>> >>
    /\ RIsOne(ret)


\* the parsed duration (Finish - Start) in hours of a row of the local df_2025
ParsedDuration(r) == Frac(r.Finish.minutes - r.Start.minutes, 60)

TimesParsed(r) == r.Start # NaT /\ r.Finish # NaT

\* C11: when analyze_conference_room_utilization has derived the Hours column,
\* in every version, each 2025 booking with parsed duration d has Hours = 15
\* when d <= 0 or d > 20 and Hours = d when 0 < d <= 20, so 0 < Hours <= 20.
C11_HoursClamped ==
    (pc = "conference" /\ local_df # None) =>
        \A i \in DOMAIN local_df.rows :
            LET r == local_df.rows[i]
                d == ParsedDuration(r)
            IN  TimesParsed(r) =>
                    /\ r.Hours = IF ~Less(Num(0), d) \/ Less(Num(20), d) THEN Num(15) ELSE d
                    /\ Less(Num(0), r.Hours)
                    /\ ~Less(Num(20), r.Hours)

\* C12: once load_data has returned, no step of the script (no analysis method,
\* no summary) changes badge_data, energy_data, conference_data or
\* building_info; the parsed Start and Finish and the Hours column are in the
\* local df_2025 only.
C12_TablesNotMutated == [][badge_data # None => analyzer' = analyzer]_vars

C12_Witness ==
    /\ pc = "conference"
    /\ Len(local_df.rows) = 2
    /\ local_df.rows[1].Hours = Frac(3, 2)
    /\ local_df.rows[1].Start = [k |-> "ts", minutes |-> 9 * 60]
    /\ conference_data = DataFrame(LoadConference(files.conference))
    /\ conference_data.rows[1].Start = <<9, 0, "AM">>

\* the sections printed so far, in order
Sections == [i \in DOMAIN report |-> report[i].out.section]

\* C13: for a loaded analyzer whose methods are called in any order and any
\* number of times, the bundle each of the five analyses returned last is the
\* bundle of the tables made of the files, whatever was called before it.
C13_OrderIndependent ==
    Loaded =>
        /\ results.occupancy # None =>
              results.occupancy =
                  IF version = "v1" THEN OccupancyResultV1(files.badge)
                  ELSE OccupancyResult(files.badge, BuildingInfo)
        /\ results.energy # None => results.energy = EnergyResult(version, BuildingInfo)
        /\ results.correlation # None =>
              results.correlation = CorrelationResult(files.badge)
        /\ results.conference # None =>
              results.conference = ConferenceResult(version, LoadConference(files.conference))
        /\ results.advanced # None => results.advanced = AdvancedResult(files.badge)

C13_Witness ==
    /\ version = "main"
    /\ Sections = <<"load", "advanced", "correlation", "advanced">>
    /\ results.advanced # None
    /\ results.correlation.corr_water # NaN
    /\ results.occupancy = None

MainOrder ==
    <<"load", "occupancy", "energy", "correlation", "conference", "advanced", "summary",
      "complete", "saved">>

IsPrefix(s, t) == Len(s) <= Len(t) /\ \A i \in DOMAIN s : s[i] = t[i]

\* C14: in the run of the main script every section after the load line is
\* printed from a state in which load_data has assigned the three tables; the
\* sections come once each in the order occupancy, energy, correlation,
\* conference, advanced metrics, executive summary, and a run that reaches its
\* end has printed all of them with the completion line after them.
C14_LoadedThenInOrder ==
    /\ [](version = "main" =>
            /\ IsPrefix(Sections, MainOrder)
            /\ pc = "done" => Sections = MainOrder)
    /\ [][(report' # report /\ report'[Len(report')].out.section # "load") =>
            (badge_data # None /\ energy_data # None /\ conference_data # None)]_vars

C14_Witness ==
    /\ version = "main"
    /\ pc = "done"
    /\ Sections = MainOrder
    /\ Len(badge_data.rows) = 2

Bookings2025In(room_list) ==
    {i \in DOMAIN conference_data.rows :
        /\ conference_data.rows[i].Date.year = 2025
        /\ conference_data.rows[i].Room \in room_list}

\* C15: when advanced_metrics_analysis gets to its room section, a room category
\* (large, medium) without 2025 bookings has none of its metrics printed, a
\* category with bookings has its count printed, and the method returns its
\* bundle.
C15_EmptyCategorySkipped ==
    (HasPrinted("advanced") /\ Printed("advanced").fault = "") =>
        /\ results.advanced # None
        /\ LET rooms == Printed("advanced").rooms
           IN  /\ Bookings2025In(large_rooms) = {} <=> rooms.large = None
               /\ Bookings2025In(medium_rooms) = {} <=> rooms.medium = None
               /\ rooms.large # None =>
                     rooms.large.bookings = Cardinality(Bookings2025In(large_rooms))
               /\ rooms.medium # None =>
                     rooms.medium.bookings = Cardinality(Bookings2025In(medium_rooms))

C15_Witness ==
    /\ pc = "advanced"
    /\ Len(conference_data.rows) = 2
    /\ Bookings2025In(large_rooms) = {}
    /\ Cardinality(Bookings2025In(medium_rooms)) = 1
    /\ Printed("advanced").rooms.large = None
    /\ Printed("advanced").rooms.medium.ghost_pct = Num(100)
    /\ results.advanced # None

\* C16: when no loaded booking is dated 2025, the conference section prints no
\* ghost-booking percentage (the division by the zero booking count is not made).
C16_EmptyYearGuarded ==
    (HasPrinted("conference") /\ Printed("conference").total_bookings = 0) =>
        Printed("conference").ghost_pct = None

ParsableDate(row) == row.Date.ymd # <<>>

ParsableUpTo(rows, i) == {j \in 1..i : ParsableDate(rows[j])}

\* C17: after load_data, conference_data holds the input rows with a parsable
\* Date, each with its date parsed, in the order of the file, and no other row.
C17_UnparsableDatesDropped ==
    conference_data # None =>
        LET inp == files.conference
            out == conference_data.rows
        IN  /\ Len(out) = Cardinality(ParsableUpTo(inp, Len(inp)))
            /\ \A i \in DOMAIN out : out[i].Date # NaT
            /\ \A i \in DOMAIN inp :
                  ParsableDate(inp[i]) =>
                      LET o == out[Cardinality(ParsableUpTo(inp, i))]
                      IN  /\ o.Date.year = inp[i].Date.ymd[1]
                          /\ [o EXCEPT !.Date = inp[i].Date] = inp[i]

C17_Witness ==
    /\ pc = "loaded"
    /\ Len(files.conference) = 2
    /\ ~ParsableDate(files.conference[1])
    /\ ParsableDate(files.conference[2])
    /\ Len(conference_data.rows) = 1
    /\ conference_data.rows[1].Date.year = 2024

\* C18: with the badge and booking files fixed, the bundles returned by
\* analyze_energy_consumption, correlate_occupancy_with_energy and
\* advanced_metrics_analysis never change from one call to the next, whatever
\* utility file load_data has read in between.
C18_UtilityFileIgnored ==
    [][\A m \in {"energy", "correlation", "advanced"} :
          results[m] # None => results'[m] = results[m]]_vars

C18_Witness ==
    /\ version = "main"
    /\ Sections = <<"load", "energy", "load", "energy">>
    /\ report[1].out.energy = 1
    /\ report[3].out.energy = 2
    /\ energy_data # DataFrame(BaseEnergy)
    /\ results.energy.monthly_electricity[1] = 463000

\* C19: the total square footage is 2 * 44352 + 4 * 22728 = 179616, every
\* per-square-foot rate printed by analyze_energy_consumption is the annual
\* quantity divided by it, and the square footage printed with the rates is
\* this divisor, in every version.
C19_SqftShownIsDivisor ==
    HasPrinted("energy") =>
        LET p == Printed("energy")
        IN  /\ building_info.total_sqft = 2 * floor_1_2_sqft + 4 * floor_3_6_sqft
            /\ building_info.total_sqft = 179616
            /\ p.electricity_per_sqft = Frac(total_electricity, 179616)
            /\ p.gas_per_sqft = Frac(total_gas, 179616)
            /\ p.water_per_sqft = Frac(total_water, 179616)
            /\ p.sqft_shown = 179616

\* quantity * factor / 2000 with the factor given as a fraction
Tons(quantity, num, den) == Div(Mul(quantity, Frac(num, den)), Num(2000))

\* C20: total_co2_tons is the sum over the resource types of quantity * emission
\* factor / 2000 (electricity and gas; in main also water at 27.5 kWh per 1000
\* gallons); in main it is the sum of the three co2_breakdown entries, and the
\* water entry is the sum of the printed supply (13) and wastewater (14.5) parts.
C20_Co2TotalIsSum ==
    results.energy # None =>
        LET e == Tons(Num(total_electricity), 92, 100)
            g == Tons(Num(total_gas), 117, 10)
            w == Tons(Mul(Div(Num(total_water), Num(1000)), Frac(275, 10)), 92, 100)
        IN  IF version = "main" THEN
                /\ results.energy.total_co2_tons = Add(Add(e, g), w)
                /\ results.energy.co2_breakdown = [electricity |-> e, gas |-> g, water |-> w]
                /\ results.energy.co2_breakdown.water
                     = Add(Printed("energy").co2_supply, Printed("energy").co2_wastewater)
                /\ Printed("energy").co2_total = results.energy.total_co2_tons
            ELSE
                /\ results.energy.total_co2_tons = Add(e, g)
                /\ Printed("energy").co2_total = Add(e, g)

C20_Witness ==
    /\ version = "main"
    /\ pc = "energy"
    /\ results.energy.co2_breakdown.water = Frac(32833581, 20000)
    /\ Printed("energy").co2_supply = Frac(38803323, 50000)

\* the positions, in the loaded booking table, of the bookings dated in 2025
Loaded2025 ==
    {i \in DOMAIN conference_data.rows : conference_data.rows[i].Date.year = 2025}

\* the Hours of the loaded booking at position i as the sum takes it: a missing
\* value adds nothing
HoursCounted(i) ==
    LET h == Hours(version, conference_data.rows[i])
    IN  IF h.k = "nan" THEN Num(0) ELSE h

ZeroAttendeeLoaded2025 ==
    {i \in Loaded2025 : IsGhost(version, conference_data.rows[i])}

\* C21: when analyze_conference_room_utilization has printed, in every
\* version, total_bookings is the number of loaded bookings dated in 2025, and
\* total attendees, total hours, the ghost count and the ghost hours are sums
\* over exactly those bookings: a loaded booking of another year adds to none.
C21_Only2025Counted ==
    (pc = "conference") =>
        LET out == Printed("conference")
            cd  == conference_data.rows
        IN  /\ out.total_bookings = Cardinality(Loaded2025)
            /\ results.conference.total_bookings = Cardinality(Loaded2025)
            /\ out.total_attendees = FnSum([i \in Loaded2025 |-> cd[i].Attendees], Loaded2025)
            /\ version # "v1" =>
                   out.total_hours = ValFnSum([i \in Loaded2025 |-> HoursCounted(i)], Loaded2025)
            /\ out.ghost_bookings = Cardinality(ZeroAttendeeLoaded2025)
            /\ out.wasted_hours =
                   ValFnSum([i \in ZeroAttendeeLoaded2025 |-> HoursCounted(i)],
                            ZeroAttendeeLoaded2025)

\* a run whose booking file holds a 2024 booking and a 2025 booking, both
\* without attendees: one booking is counted
C21_Witness ==
    /\ pc = "conference"
    /\ Len(conference_data.rows) = 2
    /\ Cardinality(Loaded2025) = 1
    /\ \A i \in DOMAIN conference_data.rows : conference_data.rows[i].Attendees = 0
    /\ Printed("conference").total_bookings = 1
    /\ Printed("conference").ghost_bookings = 1

\* the clamped Hours of a loaded booking, from its clock texts: 15 for a
\* duration that is not positive or is over 20 hours, the duration otherwise,
\* and nothing for a booking whose Start or Finish is no time
ClampedHoursOf(r) ==
    IF r.Start = <<>> \/ r.Finish = <<>> THEN Num(0)
    ELSE LET d == Frac(ToClock(r.Finish).minutes - ToClock(r.Start).minutes, 60)
         IN  IF ~Less(Num(0), d) \/ Less(Num(20), d) THEN Num(15) ELSE d

\* C22: in main, when analyze_conference_room_utilization has returned,
\* ghost_hours is the sum of the clamped Hours of exactly the 2025 bookings
\* with zero attendees, wasted_energy_kwh is 5 times ghost_hours,
\* ghost_bookings is at most total_bookings and ghost_hours is at most the
\* total hours booked.
C22_GhostHours ==
    (pc = "conference" /\ version = "main") =>
        LET cd == conference_data.rows
            G  == {i \in Loaded2025 : cd[i].Attendees = 0}
            c  == results.conference
        IN  /\ c.ghost_hours = ValFnSum([i \in G |-> ClampedHoursOf(cd[i])], G)
            /\ c.wasted_energy_kwh = Mul(Num(5), c.ghost_hours)
            /\ c.ghost_bookings = Cardinality(G)
            /\ c.ghost_bookings <= c.total_bookings
            /\ ~Less(Printed("conference").total_hours, c.ghost_hours)

\* main on a file with a 90-minute booking of 8 attendees and a midnight to
\* midnight booking without attendees: 15 ghost hours of 16.5 hours booked
C22_Witness ==
    /\ pc = "conference"
    /\ version = "main"
    /\ results.conference.ghost_hours = Num(15)
    /\ results.conference.wasted_energy_kwh = Num(75)
    /\ results.conference.ghost_bookings = 1
    /\ results.conference.total_bookings = 2
    /\ Printed("conference").total_hours = Frac(33, 2)

\* the months named in a selection of section 1
MonthsOf(sel) == {sel[i] : i \in DOMAIN sel}

\* C23: for every 9-month series of monthly totals, peak_months are three
\* months such that no month outside them has a larger total than one of them,
\* low_months are three months such that no month outside them has a smaller
\* total than one of them, the printed means are the means of those months'
\* totals, and the peak mean is at least the low mean.
C23_PeakAndLowMonths ==
    (fn = "peak_low_months") =>
        LET ms   == args[1]
            peak == MonthsOf(ret.peak_months)
            low  == MonthsOf(ret.low_months)
        IN  /\ Cardinality(peak) = 3 /\ peak \subseteq 1..NumMonths
            /\ Cardinality(low) = 3 /\ low \subseteq 1..NumMonths
            /\ \A p \in peak : \A m \in (1..NumMonths) \ peak : ms[m] <= ms[p]
            /\ \A l \in low : \A m \in (1..NumMonths) \ low : ms[m] >= ms[l]
            /\ ret.peak_mean = Frac(FnSum(ms, peak), 3)
            /\ ret.low_mean = Frac(FnSum(ms, low), 3)
            /\ ~Less(ret.peak_mean, ret.low_mean)

\* a series whose largest totals are in Feb, May and Sep and whose smallest
\* are in Jan, Mar and Aug
C23_Witness ==
    /\ fn = "peak_low_months"
    /\ args[1] = <<0, 2, 0, 1, 2, 1, 1, 0, 2>>
    /\ ret.peak_months = <<2, 5, 9>>
    /\ ret.low_months = <<1, 3, 8>>
    /\ ret.peak_mean = Num(2)
    /\ ret.low_mean = Num(0)

\* C28: whenever section 1 of advanced_metrics_analysis has printed, the
\* peak months and the low months have no month in common.
C28_PeakLowDisjoint ==
    (HasPrinted("advanced") /\ Printed("advanced").fault = "") =>
        MonthsOf(Printed("advanced").peak_low.peak_months)
            \cap MonthsOf(Printed("advanced").peak_low.low_months) = {}

\* the employees of the loaded badge table whose 9-month total is under 90
Under90 ==
    {i \in DOMAIN badge_data.rows : SeqSum(badge_data.rows[i].swipes) < 90}

\* C24: in main, when advanced_metrics_analysis has returned, remote_employees
\* is the number of employees whose 9-month total is under 90, each counted
\* once, space_reduction_potential is 120 times remote_employees and the
\* printed annual savings are 25 times space_reduction_potential.
C24_RemoteEmployees ==
    (pc = "advanced") =>
        LET a   == results.advanced
            out == Printed("advanced")
        IN  /\ a.remote_employees = Cardinality(Under90)
            /\ out.remote_employees = a.remote_employees
            /\ a.space_reduction_potential = 120 * a.remote_employees
            /\ out.space_reduction = a.space_reduction_potential
            /\ out.space_savings = 25 * a.space_reduction_potential

\* two employees with totals 20 and 0: both remote, 240 sqft, $6,000
C24_Witness ==
    /\ pc = "advanced"
    /\ {SeqSum(badge_data.rows[i].swipes) : i \in DOMAIN badge_data.rows} = {0, 20}
    /\ results.advanced.remote_employees = 2
    /\ results.advanced.space_reduction_potential = 240
    /\ Printed("advanced").space_savings = 6000

\* C26: in main, for every badge table, remote_employees of
\* advanced_metrics_analysis equals low_utilizers of
\* analyze_occupancy_patterns.
C26_RemoteIsLowUtilizers ==
    (pc = "advanced") =>
        results.advanced.remote_employees = results.occupancy.low_utilizers

\* employees with totals 20 and 90: the first is mostly_remote and very low,
\* the second is neither
C26_Witness ==
    /\ pc = "advanced"
    /\ {SeqSum(badge_data.rows[i].swipes) : i \in DOMAIN badge_data.rows} = {20, 90}
    /\ results.advanced.remote_employees = 1
    /\ results.occupancy.low_utilizers = 1

\* C25: the booking-type distribution prints at most 5 types, each once, in
\* non-increasing order of count; no type left out has a larger count than a
\* type printed; each count is the number of 2025 bookings of that type and
\* each percentage is count / (number of 2025 bookings) * 100.
C25_TopBookingTypes ==
    (fn = "top_booking_types") =>
        LET vc      == args[1]
            total   == args[2]
            printed == {ret[i].type : i \in DOMAIN ret}
        IN  /\ Len(ret) <= 5
            /\ Len(ret) = IF Cardinality(DOMAIN vc) < 5 THEN Cardinality(DOMAIN vc) ELSE 5
            /\ Cardinality(printed) = Len(ret)
            /\ printed \subseteq DOMAIN vc
            /\ \A i, j \in DOMAIN ret : i < j => ret[i].count >= ret[j].count
            /\ \A t \in DOMAIN vc \ printed : \A i \in DOMAIN ret : vc[t] <= ret[i].count
            /\ \A i \in DOMAIN ret :
                  /\ ret[i].count = vc[ret[i].type]
                  /\ ret[i].pct = Frac(100 * ret[i].count, total)

\* six types with counts 2, 2, 1, 1, 1, 1: five are printed, the two of count
\* 2 first, and one type of count 1 is left out
C25_Witness ==
    /\ fn = "top_booking_types"
    /\ Cardinality(DOMAIN args[1]) = 6
    /\ args[2] = 8
    /\ Len(ret) = 5
    /\ ret[1].count = 2 /\ ret[2].count = 2 /\ ret[5].count = 1
    /\ ret[1].pct = Num(25)
    /\ ret[5].pct = Frac(25, 2)

\* C27: in main, when correlate_occupancy_with_energy has returned for a
\* badge table with at least one employee, its occupancy_rate equals the
\* attendance_rate that analyze_occupancy_patterns returned for the same
\* table, whatever the number of rows.
C27_OccupancyRateIsAttendanceRate ==
    (pc = "correlation" /\ version = "main" /\ Len(badge_data.rows) > 0) =>
        results.correlation.occupancy_rate = results.occupancy.attendance_rate

\* C29: when the script has left the with block of its report generation,
\* by reaching its end or by an exception of an analysis, sys.stdout is the
\* console stream again and not the closed report file.
C29_StdoutRestored ==
    (pc \in {"done", "failed"}) => stdout = "console"

\* whether the whole number n is the value v rounded to a whole number
RoundsTo(v, n) ==
    /\ ~Less(v, Add(Num(n), Frac(-1, 2)))
    /\ ~Less(Add(Num(n), Frac(1, 2)), v)

\* C30: when generate_summary_report has printed (main, v2), its CO2 total is
\* the sum of the component figures printed with it (main) and is, after
\* rounding, the total_co2_tons that analyze_energy_consumption returned.
C30_SummaryCo2Agrees ==
    HasPrinted("summary") =>
        LET out == Printed("summary")
        IN  /\ version = "main" =>
                  out.co2_total = out.co2_electricity + out.co2_gas + out.co2_water
            /\ RoundsTo(results.energy.total_co2_tons, out.co2_total)


====
